---- MODULE Spec2Model ----
(***************************************************************************)
(* Model of generate_beats_resources.py: the script that synthesises two   *)
(* tones, writes three WAV files, three figures and one GIF animation.     *)
(*                                                                         *)
(* Real numbers are exact rationals <<num, den>> with den > 0 (floating    *)
(* rounding is not modelled).  cos() cannot be computed here: a tone is    *)
(* any sequence over Amp whose sample at t = 0 is cos(0) = 1.  Arrays are  *)
(* 1-based sequences, so Python's t[k] is t[k+1].  The envelope and the    *)
(* plot styling carry no state the properties below read and are left out. *)
(***************************************************************************)
EXTENDS Integers, Sequences, FiniteSets, TLC

VARIABLES
    pc,        \* position of the module-level script
    wpc,       \* position inside the active write_wav call ("idle": none)
    call,      \* which of the three write_wav call sites is next (1..3)
    fs,        \* sample rate (line 24)
    duration,  \* duration, a rational (line 25)
    frames,    \* frame count (line 97)
    t,         \* time grid (line 38)
    x1,        \* tone 1 (line 39)
    x2,        \* tone 2 (line 40)
    x_sum,     \* composite signal (line 41)
    data,      \* write_wav's argument data
    scaled,    \* data_clip * 32767.0 truncated to an integer, before the cast
    int_data,  \* write_wav's int_data (line 48)
    pcm,       \* frames written to each WAV file
    files,     \* state of each output file on disk
    err,       \* the exception that ended the run ("none": none)
    amp,       \* normalised spectrum, squared: <<|X_k|^2, max|X|^2>> (line 87)
    window,    \* window length in samples (line 98)
    step,      \* frame-to-frame step (line 99)
    frame,     \* next frame index the animation hands to update
    i,         \* update's local i after line 115
    j,         \* update's local j after line 114
    drawn      \* frames drawn so far: <<i, j, length of t[i:j]>>

vars == <<pc, wpc, call, fs, duration, frames, t, x1, x2, x_sum, data, scaled,
          int_data, pcm, files, err, amp, window, step, frame, i, j, drawn>>

----------------------------------------------------------------------------
(* Bounds of the model. *)

MaxFs == 3
MaxDurNum == 5
MaxN == 3
MaxFrames == 3
MaxData == 2
MaxDen == 3
MaxLen == 8
MaxWin == 7
MaxSamplerFrames == 6

----------------------------------------------------------------------------
(* Arithmetic of the host language. *)

Max(a, b) == IF a >= b THEN a ELSE b

Min(a, b) == IF a <= b THEN a ELSE b

Abs(a) == IF a >= 0 THEN a ELSE -a

\* int(n/d): truncation toward zero, d > 0.
Trunc(n, d) == IF n >= 0 THEN n \div d ELSE -((-n) \div d)

\* a // b: floor division, b # 0.
PyFloorDiv(a, b) == IF b > 0 THEN a \div b ELSE (-a) \div (-b)

\* len(a[lo:hi]) for an array of length n: negative indices count from the
\* end, and both ends are clamped into 0..n.
SliceBound(k, n) == IF k < 0 THEN Max(k + n, 0) ELSE Min(k, n)

SliceLen(lo, hi, n) == Max(SliceBound(hi, n) - SliceBound(lo, n), 0)

\* a[k] is defined for -n <= k < n and raises IndexError otherwise.
IndexOK(k, n) == -n <= k /\ k < n

----------------------------------------------------------------------------
(* Signals (lines 38-41). *)

Amp == {-1, 0, 1}

\* int(fs*duration)
NumSamples(rate, dur) == Trunc(rate * dur[1], dur[2])

\* np.linspace(0, dur, num, endpoint=False): element k is k * (dur / num).
Linspace(dur, num) == [k \in 1..num |-> <<(k - 1) * dur[1], dur[2] * num>>]

\* cos(2*pi*f*t): any samples in [-1, 1], 1 at t[0] = 0.
ToneSet(num) == {s \in [1..num -> Amp] : num >= 1 => s[1] = 1}

\* 0.5*(x1 + x2)
HalfSum(a, b) == [k \in 1..Len(a) |-> <<a[k][1] + b[k][1], 2>>]

----------------------------------------------------------------------------
(* write_wav (lines 46-53) and its call sites (lines 56-58). *)

PcmScale == 32767

WavNames == <<"tone_f1.wav", "tone_f2.wav", "beat_signal.wav">>

Artifacts == {"tone_f1.wav", "tone_f2.wav", "beat_signal.wav",
              "short_window_signals.png", "beats_and_envelope.png",
              "spectrum.png", "beats_animation.gif"}

\* 0.9*x at the call sites
Scale09(x) == <<9 * x[1], 10 * x[2]>>

\* variant: the clip is forgotten
ClipNone(x) == x

\* np.clip(x, -1.0, 1.0)
Clip(x) == IF x[1] > x[2] THEN <<x[2], x[2]>>
           ELSE IF x[1] < -x[2] THEN <<-x[2], x[2]>>
           ELSE x

\* variant: the fraction is dropped before scaling, int(x) * 32767
QuantizeEarly(x) == Trunc(x[1], x[2]) * PcmScale

\* (x * 32767.0) converted to an integer: the fraction is dropped
Quantize(x) == Trunc(x[1] * PcmScale, x[2])

\* astype(np.int16): exact for values in -32768..32767; outside that range
\* the cast keeps the low 16 bits
AsInt16(v) == ((v + 32768) % 65536) - 32768

----------------------------------------------------------------------------
(* Spectrum (lines 84-87). *)

\* Nfft = 1<<16 in the script; the transform is modelled at size 4.
Nfft == 4

\* x[:Nfft] zero-padded to Nfft samples, as numerators over the common
\* denominator 2 of the composite signal.
Padded(x) == [k \in 1..Nfft |-> IF k <= Len(x) THEN x[k][1] ELSE 0]

\* |np.fft.rfft(x, n=4)|^2 for bins 0, 1, 2.
Rfft4Mag2(p) == << (p[1] + p[2] + p[3] + p[4]) * (p[1] + p[2] + p[3] + p[4]),
                   (p[1] - p[3]) * (p[1] - p[3]) + (p[4] - p[2]) * (p[4] - p[2]),
                   (p[1] - p[2] + p[3] - p[4]) * (p[1] - p[2] + p[3] - p[4]) >>

SeqMax(s) == CHOOSE m \in {s[k] : k \in 1..Len(s)} :
                 \A k \in 1..Len(s) : s[k] <= m

\* np.abs(X)/np.max(np.abs(X)), squared: a plain division, so a zero maximum
\* yields 0/0 (NaN) and no exception.
Normalize(m2) == [k \in 1..Len(m2) |-> <<m2[k], SeqMax(m2)>>]

----------------------------------------------------------------------------
(* Window sampler (lines 97-99 and 112-120). *)

\* window = int(0.05 * fs)
WindowOf(rate) == Trunc(5 * rate, 100)

\* variant: the max(1, ...) is forgotten
StepNoFloor(n, w, f) == PyFloorDiv(n - w, f)

\* step = max(1, (len(t)-window)//frames)
StepOf(n, w, f) == Max(1, PyFloorDiv(n - w, f))

\* variant: frames counted from 1
FrameStartNext(k, s) == (k + 1) * s

\* i = frame*step
FrameStart(k, s) == k * s

\* j = i+window if i+window <= len(t) else len(t)
UpdateJ(a, w, n) == IF a + w <= n THEN a + w ELSE n

\* variant: the start is not moved back when the window is cut short
UpdateIKeep(a, b, w, n) == a

\* i = i if j-i == window else len(t)-window
UpdateI(a, b, w, n) == IF b - a = w THEN a ELSE n - w

----------------------------------------------------------------------------
(* The script, top to bottom. *)

NoFiles == [f \in Artifacts |-> "absent"]

NoPcm == [f \in {WavNames[k] : k \in 1..3} |-> <<>>]

\* The run ends with exception e.
Raise(e) == /\ err' = e
            /\ pc' = "aborted"
            /\ wpc' = "idle"

\* How a library writer can leave its file when asked to write it.
IOOutcomes == {"complete", "partial", "absent"}

\* Lines 38-41.  np.linspace rejects a negative sample count.
Signals ==
    /\ pc = "signals"
    /\ LET num == NumSamples(fs, duration) IN
       IF num < 0
       THEN /\ Raise("ValueError")
            /\ UNCHANGED <<t, x1, x2, x_sum>>
       ELSE /\ \E c1 \in ToneSet(num), c2 \in ToneSet(num) :
                   /\ x1' = [k \in 1..num |-> <<c1[k], 1>>]
                   /\ x2' = [k \in 1..num |-> <<c2[k], 1>>]
                   /\ x_sum' = HalfSum([k \in 1..num |-> <<c1[k], 1>>],
                                       [k \in 1..num |-> <<c2[k], 1>>])
            /\ t' = Linspace(duration, num)
            /\ pc' = "audio"
            /\ UNCHANGED <<wpc, err>>
    /\ UNCHANGED <<call, fs, duration, frames, data, scaled, int_data, pcm,
                   files, amp, window, step, frame, i, j, drawn>>

\* Lines 56-58: write_wav(path, 0.9*x, fs).
CallWriteWav ==
    /\ pc = "audio"
    /\ wpc = "idle"
    /\ call \in 1..3
    /\ LET src == IF call = 1 THEN x1 ELSE IF call = 2 THEN x2 ELSE x_sum IN
       data' = [k \in 1..Len(src) |-> Scale09(src[k])]
    /\ wpc' = "encode"
    /\ UNCHANGED <<pc, call, fs, duration, frames, t, x1, x2, x_sum, scaled,
                   int_data, pcm, files, err, amp, window, step, frame, i, j,
                   drawn>>

\* Lines 47-48.
WavEncode ==
    /\ wpc = "encode"
    /\ scaled' = [k \in 1..Len(data) |-> Quantize(Clip(data[k]))]
    /\ int_data' = [k \in 1..Len(data) |-> AsInt16(Quantize(Clip(data[k])))]
    /\ wpc' = "open"
    /\ UNCHANGED <<pc, call, fs, duration, frames, t, x1, x2, x_sum, data,
                   pcm, files, err, amp, window, step, frame, i, j, drawn>>

\* Line 49: wave.open(path, "wb") creates the file, or fails.
WavOpen ==
    /\ wpc = "open"
    /\ \E ok \in BOOLEAN :
          IF ok
          THEN /\ files' = [files EXCEPT ![WavNames[call]] = "partial"]
               /\ wpc' = "header"
               /\ UNCHANGED <<pc, err>>
          ELSE /\ Raise("OSError")
               /\ UNCHANGED files
    /\ UNCHANGED <<call, fs, duration, frames, t, x1, x2, x_sum, data, scaled,
                   int_data, pcm, amp, window, step, frame, i, j, drawn>>

\* Lines 50-52: setframerate rejects a rate <= 0; the file stays as opened.
WavHeader ==
    /\ wpc = "header"
    /\ IF fs <= 0
       THEN Raise("wave.Error")
       ELSE /\ wpc' = "frames"
            /\ UNCHANGED <<pc, err>>
    /\ UNCHANGED <<call, fs, duration, frames, t, x1, x2, x_sum, data, scaled,
                   int_data, pcm, files, amp, window, step, frame, i, j, drawn>>

\* Line 53 and the end of the with block: the frames are written and the
\* file closed, or the write fails and the file stays where it is.
WavFrames ==
    /\ wpc = "frames"
    /\ \E ok \in BOOLEAN :
          IF ok
          THEN /\ pcm' = [pcm EXCEPT ![WavNames[call]] = int_data]
               /\ files' = [files EXCEPT ![WavNames[call]] = "complete"]
               /\ wpc' = "idle"
               /\ call' = call + 1
               /\ pc' = IF call = 3 THEN "fig_short" ELSE pc
               /\ UNCHANGED err
          ELSE /\ Raise("OSError")
               /\ UNCHANGED <<pcm, files, call>>
    /\ UNCHANGED <<fs, duration, frames, t, x1, x2, x_sum, data, scaled,
                   int_data, amp, window, step, frame, i, j, drawn>>

\* plt.savefig / anim.save on file f, then the script goes on at next.
EmitFile(f, next) ==
    /\ \E out \in IOOutcomes :
          /\ files' = [files EXCEPT ![f] = out]
          /\ IF out = "complete"
             THEN /\ pc' = next
                  /\ UNCHANGED <<wpc, err>>
             ELSE Raise("OSError")

\* Lines 62-70.
SaveFigShort ==
    /\ pc = "fig_short"
    /\ EmitFile("short_window_signals.png", "fig_long")
    /\ UNCHANGED <<call, fs, duration, frames, t, x1, x2, x_sum, data, scaled,
                   int_data, pcm, amp, window, step, frame, i, j, drawn>>

\* Lines 73-81.
SaveFigLong ==
    /\ pc = "fig_long"
    /\ EmitFile("beats_and_envelope.png", "spectrum")
    /\ UNCHANGED <<call, fs, duration, frames, t, x1, x2, x_sum, data, scaled,
                   int_data, pcm, amp, window, step, frame, i, j, drawn>>

\* Lines 84-87.
Spectrum ==
    /\ pc = "spectrum"
    /\ amp' = Normalize(Rfft4Mag2(Padded(x_sum)))
    /\ pc' = "fig_spec"
    /\ UNCHANGED <<wpc, call, fs, duration, frames, t, x1, x2, x_sum, data,
                   scaled, int_data, pcm, files, err, window, step, frame, i,
                   j, drawn>>

\* Lines 88-93.
SaveFigSpec ==
    /\ pc = "fig_spec"
    /\ EmitFile("spectrum.png", "anim_setup")
    /\ UNCHANGED <<call, fs, duration, frames, t, x1, x2, x_sum, data, scaled,
                   int_data, pcm, amp, window, step, frame, i, j, drawn>>

\* Lines 96-106.  frames = 0 divides by zero.
AnimSetup ==
    /\ pc = "anim_setup"
    /\ window' = WindowOf(fs)
    /\ IF frames = 0
       THEN /\ Raise("ZeroDivisionError")
            /\ UNCHANGED step
       ELSE /\ step' = StepOf(Len(t), WindowOf(fs), frames)
            /\ pc' = "anim_save"
            /\ UNCHANGED <<wpc, err>>
    /\ frame' = 0
    /\ UNCHANGED <<call, fs, duration, frames, t, x1, x2, x_sum, data, scaled,
                   int_data, pcm, files, amp, i, j, drawn>>

\* Lines 112-120, called by anim.save (line 123) for frame = 0 .. frames-1.
\* t[i] raises IndexError when i is outside the grid.
Update ==
    /\ pc = "anim_save"
    /\ frame < frames
    /\ LET i0 == FrameStart(frame, step)
           jj == UpdateJ(i0, window, Len(t))
           ii == UpdateI(i0, jj, window, Len(t))
       IN /\ i' = ii
          /\ j' = jj
          /\ IF IndexOK(ii, Len(t))
             THEN /\ drawn' = Append(drawn, <<ii, jj, SliceLen(ii, jj, Len(t))>>)
                  /\ frame' = frame + 1
                  /\ UNCHANGED <<pc, wpc, err, files>>
             ELSE /\ \E out \in {"absent", "partial"} :
                        files' = [files EXCEPT ![ "beats_animation.gif" ] = out]
                  /\ Raise("IndexError")
                  /\ UNCHANGED <<drawn, frame>>
    /\ UNCHANGED <<call, fs, duration, frames, t, x1, x2, x_sum, data, scaled,
                   int_data, pcm, amp, window, step>>

\* Lines 123-126: every frame is drawn, the GIF is written, the script ends.
GifWrite ==
    /\ pc = "anim_save"
    /\ frame >= frames
    /\ EmitFile("beats_animation.gif", "done")
    /\ UNCHANGED <<call, fs, duration, frames, t, x1, x2, x_sum, data, scaled,
                   int_data, pcm, amp, window, step, frame, i, j, drawn>>

----------------------------------------------------------------------------
(* The whole script, from its editable parameters. *)

FsSet == (-1..MaxFs) \cup {20, 40}

DurSet == {<<p, q>> : p \in -1..MaxDurNum, q \in {1, 2, 20, 40}}

FrameSet == -1..MaxFrames

\* Nothing computed, nothing written.
Blank ==
    /\ call = 1
    /\ x1 = <<>>
    /\ x2 = <<>>
    /\ x_sum = <<>>
    /\ scaled = <<>>
    /\ int_data = <<>>
    /\ pcm = NoPcm
    /\ files = NoFiles
    /\ err = "none"
    /\ amp = <<>>
    /\ window = 0
    /\ step = 0
    /\ frame = 0
    /\ i = 0
    /\ j = 0
    /\ drawn = <<>>

Init ==
    /\ pc = "signals"
    /\ fs \in FsSet
    /\ duration \in DurSet
    /\ frames \in FrameSet
    /\ NumSamples(fs, duration) <= MaxN
    /\ t = <<>>
    /\ wpc = "idle"
    /\ data = <<>>
    /\ Blank

Next ==
    \/ Signals
    \/ CallWriteWav
    \/ WavEncode
    \/ WavOpen
    \/ WavHeader
    \/ WavFrames
    \/ SaveFigShort
    \/ SaveFigLong
    \/ Spectrum
    \/ SaveFigSpec
    \/ AnimSetup
    \/ Update
    \/ GifWrite

Spec == Init /\ [][Next]_vars

----------------------------------------------------------------------------
(* write_wav alone, on any data: samples n/d inside and outside [-1, 1]. *)

SampleSet == {<<n, d>> : n \in -(2 * MaxDen)..(2 * MaxDen), d \in 1..MaxDen}

DataSet == UNION {[1..m -> {x \in SampleSet : Abs(x[1]) <= 2 * x[2]}] : m \in 0..MaxData}

InitPCM ==
    /\ pc = "audio"
    /\ wpc = "encode"
    /\ fs = 44100
    /\ duration = <<6, 1>>
    /\ frames = 40
    /\ t = <<>>
    /\ data \in DataSet
    /\ Blank

NextPCM ==
    \/ WavEncode
    \/ WavOpen
    \/ WavHeader
    \/ WavFrames

SpecPCM == InitPCM /\ [][NextPCM]_vars

----------------------------------------------------------------------------
(* The window sampler alone, on any signal length, window and frame count:  *)
(* the script at line 96 with a grid of n points and int(0.05*fs) = w.      *)

SamplerFs == {20 * w + 10 : w \in 0..MaxWin}

InitSampler ==
    /\ pc = "anim_setup"
    /\ wpc = "idle"
    /\ fs \in SamplerFs
    /\ frames \in -1..MaxSamplerFrames
    /\ \E n \in 0..MaxLen :
          /\ duration = <<n, fs>>
          /\ t = [k \in 1..n |-> <<k - 1, fs>>]
    /\ data = <<>>
    /\ Blank

NextSampler ==
    \/ AnimSetup
    \/ Update

SpecSampler == InitSampler /\ [][NextSampler]_vars

----------------------------------------------------------------------------
(* Properties of the window sampler. *)

SigLen == Len(t)

\* update has run at least once; LastFrame is the frame it ran on last.
Updated == (pc = "anim_save" /\ frame >= 1) \/ err = "IndexError"

LastFrame == IF err = "IndexError" THEN frame ELSE frame - 1

SamplerValid == window <= SigLen /\ frames >= 1

\* The start index update(k) computes, from the step the setup stored.
StartOf(k) ==
    UpdateI(FrameStart(k, step), UpdateJ(FrameStart(k, step), window, SigLen),
            window, SigLen)

\* C1: with 1 <= W <= N and F >= 1, every frame update draws is the slice
\* [i, j) with 0 <= i <= N-W and j - i = W, it has W samples, no frame is
\* refused, and frame 0 starts at index 0.
C1_InBounds ==
    (Updated /\ SamplerValid /\ window >= 1) =>
        /\ err = "none"
        /\ 0 <= i /\ i <= SigLen - window /\ j - i = window
        /\ LastFrame = 0 => i = 0
        /\ drawn[Len(drawn)] = <<i, j, window>>
        /\ \A k \in 1..Len(drawn) :
              /\ 0 <= drawn[k][1] /\ drawn[k][1] <= SigLen - window
              /\ drawn[k][2] - drawn[k][1] = window
              /\ drawn[k][3] = window
        /\ drawn[1][1] = 0

\* A frame whose unclamped window would overrun the signal was drawn in bounds.
C1_Witness ==
    /\ Updated /\ SamplerValid /\ window >= 1
    /\ LastFrame >= 1
    /\ LastFrame * step + window > SigLen
    /\ drawn[Len(drawn)] = <<SigLen - window, SigLen, window>>

\* C2: with W <= N and F >= 1, the start index update(k) computes equals
\* min(k*step, N-W) with step = max(1, (N-W) // F).
C2_StartFormula ==
    (Updated /\ SamplerValid) =>
        i = Min(LastFrame * Max(1, (SigLen - window) \div frames),
                SigLen - window)

\* Both sides of the min occur: an unclamped frame past frame 0 with a step
\* above 1, seen at the last frame of a run.
C2_Witness ==
    /\ Updated /\ SamplerValid
    /\ window >= 1
    /\ LastFrame = frames - 1
    /\ LastFrame >= 2
    /\ step >= 2
    /\ i = LastFrame * step
    /\ i < SigLen - window

\* C10: with W <= N and F >= 1, the clamp changes some frame's start iff
\* N - W < F - 1; when N - W >= F - 1 every frame starts at k*step, starts
\* strictly increase and (F-1)*step + W <= N; starts never decrease; and the
\* frames drawn are the frames so computed.
C10_ClampReach ==
    (pc = "anim_save" /\ SamplerValid) =>
        /\ (\E k \in 0..(frames - 1) : StartOf(k) # k * step)
               <=> (SigLen - window < frames - 1)
        /\ (SigLen - window >= frames - 1) =>
               /\ \A k \in 0..(frames - 1) : StartOf(k) = k * step
               /\ \A k \in 0..(frames - 2) : StartOf(k) < StartOf(k + 1)
               /\ (frames - 1) * step + window <= SigLen
        /\ \A k \in 0..(frames - 2) : StartOf(k) <= StartOf(k + 1)
        /\ \A m \in 1..Len(drawn) : drawn[m][1] = StartOf(m - 1)

\* Every frame of a run was drawn and the last ones were clamped.
C10_Witness ==
    /\ pc = "anim_save" /\ SamplerValid
    /\ window >= 1
    /\ frame = frames
    /\ frames >= 3
    /\ SigLen - window >= 1
    /\ SigLen - window < frames - 1
    /\ drawn[frames][1] = SigLen - window
    /\ drawn[frames - 1][1] = SigLen - window

\* C3: when W > N or F <= 0 the sampler produces no frame.
C3_InvalidRejected ==
    (WindowOf(fs) > SigLen \/ frames <= 0) => drawn = <<>>

----------------------------------------------------------------------------
(* Properties of write_wav. *)

Encoded == wpc # "encode"

\* clip(x, -1, 1) as a numerator over x's denominator
ClipNum(x) == Max(-x[2], Min(x[2], x[1]))

\* C6: for every sample x, inside or outside [-1, 1], the integer q encoded
\* for it satisfies |q/32767 - clip(x, -1, 1)| <= 1/32767.
C6_RoundTrip ==
    Encoded =>
        \A k \in 1..Len(data) :
            Abs(int_data[k] * data[k][2] - 32767 * ClipNum(data[k]))
                <= data[k][2]

\* An out-of-range sample and an in-range sample that does not encode exactly.
C6_Witness ==
    /\ Encoded
    /\ \E k \in 1..Len(data) : data[k][1] < -data[k][2]
    /\ \E k \in 1..Len(data) :
          /\ Abs(data[k][1]) < data[k][2]
          /\ int_data[k] * data[k][2] # 32767 * data[k][1]

\* C7: write_wav encodes one 16-bit sample per input sample, clips
\* out-of-range samples instead of raising, every encoded integer lies in
\* [-32767, 32767] so the 16-bit cast changes nothing, and the file written
\* holds exactly those samples.
C7_NoReject ==
    Encoded =>
        /\ Len(int_data) = Len(data)
        /\ \A k \in 1..Len(data) :
              /\ -32767 <= scaled[k] /\ scaled[k] <= 32767
              /\ int_data[k] = scaled[k]
        /\ err \in {"none", "OSError"}
        /\ files["tone_f1.wav"] = "complete" =>
              /\ pcm["tone_f1.wav"] = int_data
              /\ Len(pcm["tone_f1.wav"]) = Len(data)

\* A file written from samples above 1 and below -1.
C7_Witness ==
    /\ files["tone_f1.wav"] = "complete"
    /\ Len(data) = 2
    /\ data[1][1] > data[1][2]
    /\ data[2][1] < -data[2][2]
    /\ pcm["tone_f1.wav"] = <<32767, -32767>>

----------------------------------------------------------------------------
(* Properties of the whole run. *)

GridBuilt == pc # "signals" /\ err # "ValueError"

\* C4: for sample_rate > 0 and duration > 0 the grid has
\* floor(sample_rate*duration) elements, starts at 0, and element i is
\* exactly i/sample_rate.
C4_GridSpacing ==
    (GridBuilt /\ fs > 0 /\ duration[1] > 0) =>
        /\ Len(t) = (fs * duration[1]) \div duration[2]
        /\ \A k \in 1..Len(t) : t[k][1] * fs = (k - 1) * t[k][2]

\* C5: with sample_rate <= 0, duration <= 0 or a sample count of zero the
\* run stops at the signal generator: no later stage runs, no file is touched.
C5_GeneratorRejects ==
    (fs <= 0 \/ duration[1] <= 0 \/ NumSamples(fs, duration) = 0) =>
        /\ pc \in {"signals", "aborted"}
        /\ files = NoFiles

\* C8: when the first Nfft samples of the composite signal are all zero, no
\* normalised spectrum is produced and the run does not go on to plot one.
C8_DegenerateRejected ==
    (\A k \in 1..Nfft : Padded(x_sum)[k] = 0) =>
        /\ amp = <<>>
        /\ pc \notin {"fig_spec", "anim_setup", "anim_save", "done"}

\* C9: when the run has ended, normally or by an exception, every output
\* file is completely written or absent.
C9_Atomic ==
    pc \in {"done", "aborted"} =>
        \A f \in Artifacts : files[f] \in {"absent", "complete"}

====
